---- MODULE Spec2Model ----
(***************************************************************************)
(* LlaMasterKey: a credential-substitution reverse proxy (LlaMasterKey.py). *)
(*                                                                         *)
(* Text is modelled as a sequence of one-character strings, so that        *)
(* str.split, str.replace, urlparse and the f-strings of the source are    *)
(* computed character by character.  Python's None, where a text may stand, *)
(* is the one-element tuple <<"None">>, which no text equals (its element  *)
(* is not a character).                                                    *)
(***************************************************************************)
EXTENDS Integers, Sequences, FiniteSets, TLC

None == <<"None">>

(* ---------------------------------------------------------------- text *)

SP == " "

Bearer == <<"B", "e", "a", "r", "e", "r">>
openai == <<"o", "p", "e", "n", "a", "i">>
cohere == <<"c", "o", "h", "e", "r", "e">>
hugging_face == <<"h", "u", "g", "g", "i", "n", "g", "_", "f", "a", "c", "e">>

OPENAI_URL == <<"h", "t", "t", "p", "s", ":", "/", "/", "a", "p", "i", ".", "o", "p", "e", "n", "a", "i", ".", "c", "o", "m", "/", "v", "1", "/">>
COHERE_URL == <<"h", "t", "t", "p", "s", ":", "/", "/", "a", "p", "i", ".", "c", "o", "h", "e", "r", "e", ".", "a", "i">>
HF_URL == <<"h", "t", "t", "p", "s", ":", "/", "/", "h", "u", "g", "g", "i", "n", "g", "f", "a", "c", "e", ".", "c", "o">>
HF_PREFIX == <<"/", "h", "f">>

HTTP_400_BAD_REQUEST == 400
HTTP_401_UNAUTHORIZED == 401

\* s[i..] (1-based), empty when i > Len(s)
Drop(s, n) == SubSeq(s, n + 1, Len(s))

StartsWith(s, p) == Len(s) >= Len(p) /\ SubSeq(s, 1, Len(p)) = p

\* index of the first occurrence of character c in s at or after i, 0 if none
RECURSIVE Find(_, _, _)
Find(s, c, i) ==
    IF i > Len(s) THEN 0
    ELSE IF s[i] = c THEN i
    ELSE Find(s, c, i + 1)

\* str.split() with no separator: runs of spaces are one separator and the
\* empty pieces are dropped
RECURSIVE split_whitespace(_)
split_whitespace(s) ==
    LET i == Find(s, SP, 1)
        piece == IF i = 0 THEN s ELSE SubSeq(s, 1, i - 1)
        rest == IF i = 0 THEN <<>> ELSE split_whitespace(Drop(s, i))
    IN  IF piece = <<>> THEN rest ELSE <<piece>> \o rest

\* str.split(' '): cut at every single space; consecutive spaces give empty
\* pieces and the empty text gives one empty piece
RECURSIVE split(_)
split(s) ==
    LET i == Find(s, SP, 1) IN
    IF i = 0 THEN <<s>>
    ELSE <<SubSeq(s, 1, i - 1)>> \o split(Drop(s, i))

\* str.replace(old, ""): every non-overlapping occurrence of old, scanning
\* from the left, is removed
RECURSIVE replace(_, _)
replace(s, old) ==
    IF s = <<>> THEN <<>>
    ELSE IF StartsWith(s, old) THEN replace(Drop(s, Len(old)), old)
    ELSE <<Head(s)>> \o replace(Tail(s), old)

\* urlparse(url) for an absolute url "scheme://netloc[/path]": the scheme is
\* the text before the first ':', the netloc runs from after "//" to the next
\* '/', the path is the rest
urlparse(url) ==
    LET c == Find(url, ":", 1)
        rest == Drop(url, c + 2)
        s == Find(rest, "/", 1)
    IN  [scheme |-> SubSeq(url, 1, c - 1),
         netloc |-> IF s = 0 THEN rest ELSE SubSeq(rest, 1, s - 1),
         path   |-> IF s = 0 THEN <<>> ELSE Drop(rest, s - 1)]

\* str(httpx.URL): the query was passed to the constructor, so '?' and the
\* query are always appended
UrlString(u) == u.scheme \o <<":", "/", "/">> \o u.netloc \o u.path \o <<"?">> \o u.query

(* ------------------------------------------------------------- headers *)

\* Headers.get(key): the value of the first entry with that key, or None
RECURSIVE HeadersGet(_, _)
HeadersGet(headers, key) ==
    IF headers = <<>> THEN None
    ELSE IF Head(headers)[1] = key THEN Head(headers)[2]
    ELSE HeadersGet(Tail(headers), key)

HeaderIndexes(headers, key) == {i \in 1..Len(headers) : headers[i][1] = key}

Min(S) == CHOOSE x \in S : \A y \in S : x <= y

\* the entries of headers at the indexes not in drop, in order
RECURSIVE Without(_, _, _)
Without(headers, drop, i) ==
    IF i > Len(headers) THEN <<>>
    ELSE IF i \in drop THEN Without(headers, drop, i + 1)
    ELSE <<headers[i]>> \o Without(headers, drop, i + 1)

\* a dict-like assignment: the key is set and, of every key, only the first
\* entry is kept
SetHeaderDict(headers, key, value) ==
    LET found == HeaderIndexes(headers, key)
        set == IF found = {} THEN Append(headers, <<key, value>>)
               ELSE [headers EXCEPT ![Min(found)] = <<key, value>>]
    IN  Without(set, {i \in 1..Len(set) : \E j \in 1..(i - 1) : set[j][1] = set[i][1]}, 1)

\* MutableHeaders.__setitem__: the first entry with the key gets the value and
\* every later entry with the key is removed; with no such entry the pair is
\* appended
SetHeader(headers, key, value) ==
    LET found == HeaderIndexes(headers, key) IN
    IF found = {} THEN Append(headers, <<key, value>>)
    ELSE LET first == Min(found)
             set == [headers EXCEPT ![first] = <<key, value>>]
         IN  Without(set, found \ {first}, 1)

(* ------------------------------------------------------------ handlers *)

\* __reverse_proxy that leaves the inbound query out of the outbound URL
reverse_proxy_no_query(request, new_url, bearer_key, replace_path) ==
    LET parsed_url == urlparse(new_url)
        new_path == IF replace_path # None
                    THEN replace(request.path, replace_path)
                    ELSE request.path
        url == [scheme |-> parsed_url.scheme,
                netloc |-> parsed_url.netloc,
                path   |-> parsed_url.path \o new_path,
                query  |-> <<>>]
        hosted == SetHeader(request.headers, "host", parsed_url.netloc)
        headers == IF bearer_key # None
                   THEN SetHeader(hosted, "authorization", Bearer \o <<SP>> \o bearer_key)
                   ELSE hosted
    IN  [method |-> request.method, url |-> url, headers |-> headers]

\* __reverse_proxy up to build_request: the outbound request rp_req
reverse_proxy(request, new_url, bearer_key, replace_path) ==
    LET parsed_url == urlparse(new_url)
        new_path == IF replace_path # None
                    THEN replace(request.path, replace_path)
                    ELSE request.path
        url == [scheme |-> parsed_url.scheme,
                netloc |-> parsed_url.netloc,
                path   |-> parsed_url.path \o new_path,
                query  |-> request.query]
        hosted == SetHeader(request.headers, "host", parsed_url.netloc)
        headers == IF bearer_key # None
                   THEN SetHeader(hosted, "authorization", Bearer \o <<SP>> \o bearer_key)
                   ELSE hosted
    IN  [method |-> request.method, url |-> url, headers |-> headers]

Reject(status_code) == [proxy |-> FALSE, status_code |-> status_code]
Proxy(outbound) == [proxy |-> TRUE, rp_req |-> outbound]

\* hf_catch_all with the credential also passed on the anonymous branch
hf_catch_all_keyed(request, cfg) ==
    LET authorization == HeadersGet(request.headers, "authorization") IN
    IF authorization = None
    THEN Proxy(reverse_proxy(request, HF_URL, cfg.hf_api_key, HF_PREFIX))
    ELSE IF Len(split(authorization)) # 2
    THEN Reject(HTTP_401_UNAUTHORIZED)
    ELSE IF split(authorization)[2] # hugging_face
    THEN Reject(HTTP_400_BAD_REQUEST)
    ELSE Proxy(reverse_proxy(request, HF_URL, cfg.hf_api_key, HF_PREFIX))

\* hf_catch_all accepting any provider's placeholder
hf_catch_all_any_provider(request, cfg) ==
    LET authorization == HeadersGet(request.headers, "authorization") IN
    IF authorization = None
    THEN Proxy(reverse_proxy(request, HF_URL, None, HF_PREFIX))
    ELSE IF Len(split(authorization)) # 2
    THEN Reject(HTTP_401_UNAUTHORIZED)
    ELSE IF split(authorization)[2] \notin {hugging_face, openai, cohere}
    THEN Reject(HTTP_400_BAD_REQUEST)
    ELSE Proxy(reverse_proxy(request, HF_URL, cfg.hf_api_key, HF_PREFIX))

\* hf_catch_all up to the point where it answers or awaits client.send
hf_catch_all(request, cfg) ==
    LET authorization == HeadersGet(request.headers, "authorization") IN
    IF authorization = None
    THEN Proxy(reverse_proxy(request, HF_URL, None, HF_PREFIX))
    ELSE IF Len(split(authorization)) # 2
    THEN Reject(HTTP_401_UNAUTHORIZED)
    ELSE IF split(authorization)[2] # hugging_face
    THEN Reject(HTTP_400_BAD_REQUEST)
    ELSE Proxy(reverse_proxy(request, HF_URL, cfg.hf_api_key, HF_PREFIX))

\* catch_all whose last case takes every remaining token
catch_all_no_default(request, cfg) ==
    LET authorization == HeadersGet(request.headers, "authorization") IN
    IF authorization = None
    THEN Reject(HTTP_401_UNAUTHORIZED)
    ELSE IF Len(split(authorization)) # 2
    THEN Reject(HTTP_401_UNAUTHORIZED)
    ELSE LET auth_value == split(authorization)[2] IN
         IF auth_value = openai
         THEN Proxy(reverse_proxy(request, OPENAI_URL, cfg.openai_api_key, None))
         ELSE Proxy(reverse_proxy(request, COHERE_URL, cfg.cohere_api_key, None))

\* catch_all with the gated route's anonymous branch
catch_all_anonymous(request, cfg) ==
    LET authorization == HeadersGet(request.headers, "authorization") IN
    IF authorization = None
    THEN Proxy(reverse_proxy(request, OPENAI_URL, None, None))
    ELSE IF Len(split(authorization)) # 2
    THEN Reject(HTTP_401_UNAUTHORIZED)
    ELSE LET auth_value == split(authorization)[2] IN
         IF auth_value = openai
         THEN Proxy(reverse_proxy(request, OPENAI_URL, cfg.openai_api_key, None))
         ELSE IF auth_value = cohere
         THEN Proxy(reverse_proxy(request, COHERE_URL, cfg.cohere_api_key, None))
         ELSE Reject(HTTP_400_BAD_REQUEST)

\* catch_all with the two providers' credentials exchanged
catch_all_swapped_keys(request, cfg) ==
    LET authorization == HeadersGet(request.headers, "authorization") IN
    IF authorization = None
    THEN Reject(HTTP_401_UNAUTHORIZED)
    ELSE IF Len(split(authorization)) # 2
    THEN Reject(HTTP_401_UNAUTHORIZED)
    ELSE LET auth_value == split(authorization)[2] IN
         IF auth_value = openai
         THEN Proxy(reverse_proxy(request, OPENAI_URL, cfg.cohere_api_key, None))
         ELSE IF auth_value = cohere
         THEN Proxy(reverse_proxy(request, COHERE_URL, cfg.openai_api_key, None))
         ELSE Reject(HTTP_400_BAD_REQUEST)

\* catch_all with a third case for the gated provider
catch_all_with_hf(request, cfg) ==
    LET authorization == HeadersGet(request.headers, "authorization") IN
    IF authorization = None
    THEN Reject(HTTP_401_UNAUTHORIZED)
    ELSE IF Len(split(authorization)) # 2
    THEN Reject(HTTP_401_UNAUTHORIZED)
    ELSE LET auth_value == split(authorization)[2] IN
         IF auth_value = openai
         THEN Proxy(reverse_proxy(request, OPENAI_URL, cfg.openai_api_key, None))
         ELSE IF auth_value = cohere
         THEN Proxy(reverse_proxy(request, COHERE_URL, cfg.cohere_api_key, None))
         ELSE IF auth_value = hugging_face
         THEN Proxy(reverse_proxy(request, HF_URL, cfg.hf_api_key, None))
         ELSE Reject(HTTP_400_BAD_REQUEST)

\* catch_all up to the point where it answers or awaits client.send
catch_all(request, cfg) ==
    LET authorization == HeadersGet(request.headers, "authorization") IN
    IF authorization = None
    THEN Reject(HTTP_401_UNAUTHORIZED)
    ELSE IF Len(split(authorization)) # 2
    THEN Reject(HTTP_401_UNAUTHORIZED)
    ELSE LET auth_value == split(authorization)[2] IN
         IF auth_value = openai
         THEN Proxy(reverse_proxy(request, OPENAI_URL, cfg.openai_api_key, None))
         ELSE IF auth_value = cohere
         THEN Proxy(reverse_proxy(request, COHERE_URL, cfg.cohere_api_key, None))
         ELSE Reject(HTTP_400_BAD_REQUEST)

\* the order of the two api_route registrations: "/hf/{path:path}" is tried
\* first and matches the paths that begin with "/hf/"; "/{path:path}" takes
\* every other path
RouteOf(path) ==
    IF StartsWith(path, HF_PREFIX \o <<"/">>) THEN "hf_catch_all" ELSE "catch_all"

(* -------------------------------------------------------------- inputs *)

MaxWords == 3
MaxChunks == 2

Reqs == {"r1"}

Methods == {"GET", "POST", "HEAD"}

OPENAI_KEY == <<"s", "k", "O">>
COHERE_KEY == <<"s", "k", "C">>
HF_KEY == <<"s", "k", "H">>

Configs == [openai_api_key : {None, OPENAI_KEY},
            cohere_api_key : {None, COHERE_KEY},
            hf_api_key     : {None, HF_KEY}]

Paths == { <<"/", "c", "h", "a", "t", "/", "c", "o", "m", "p", "l", "e", "t", "i", "o", "n", "s">>,
           <<"/", "h", "f", "/", "m", "o", "d", "e", "l", "s">>,
           <<"/", "h", "f", "/", "a", "/", "h", "f", "/", "b">>,
           <<"/", "h", "f">> }

Queries == { <<>>, <<"x", "=", "1">> }

Words == { <<>>, Bearer, openai, cohere, hugging_face }

RECURSIVE Join(_)
Join(ws) == IF Len(ws) = 1 THEN ws[1] ELSE ws[1] \o <<SP>> \o Join(Tail(ws))

\* the authorization header values: up to MaxWords words joined by single
\* spaces ("Bearer", "Bearer ", "Bearer openai", "Bearer  openai", ...)
AuthValues == { Join(ws) : ws \in UNION { [1..n -> Words] : n \in 1..MaxWords } }

LOCAL_HOST == <<"1", "2", "7", ".", "0", ".", "0", ".", "1", ":", "8", "0", "0", "0">>
ACCEPT_ANY == <<"*", "/", "*">>
SECOND_AUTH == Bearer \o <<SP>> \o cohere
ACCEPT_TEXT == <<"t", "e", "x", "t", "/", "*">>

\* header lists: host, an optional authorization, accept, and optionally a
\* second authorization entry after it; for the two-word authorization values
\* also with a second accept entry at the end
HeaderLists ==
    { << <<"host", LOCAL_HOST>>, <<"accept", ACCEPT_ANY>> >> }
    \cup { << <<"host", LOCAL_HOST>>, <<"authorization", v>>, <<"accept", ACCEPT_ANY>> >> :
            v \in AuthValues }
    \cup { << <<"host", LOCAL_HOST>>, <<"authorization", v>>, <<"accept", ACCEPT_ANY>>,
              <<"authorization", SECOND_AUTH>> >> : v \in AuthValues }
    \cup { << <<"host", LOCAL_HOST>>, <<"authorization", Bearer \o <<SP>> \o t>>,
              <<"accept", ACCEPT_TEXT>>, <<"authorization", SECOND_AUTH>>,
              <<"accept", ACCEPT_ANY>> >> : t \in Words }

Chunks == {"c1", "c2"}
Bodies == UNION { [1..n -> Chunks] : n \in 0..MaxChunks }
UpstreamStatuses == {200, 401}

(* --------------------------------------------------------------- state *)

VARIABLES config, pc, requests, rp_req, sends, rp_resp, response, ending, aclose

vars == <<config, pc, requests, rp_req, sends, rp_resp, response, ending, aclose>>

\* a request, outbound request or upstream response that does not exist yet
Unbound == [unbound |-> TRUE]

\* the state after startup, before any of the requests rs has arrived
Started(rs) ==
    /\ config \in Configs
    /\ pc = [r \in rs |-> "idle"]
    /\ requests = [r \in rs |-> Unbound]
    /\ rp_req = [r \in rs |-> Unbound]
    /\ sends = [r \in rs |-> 0]
    /\ rp_resp = [r \in rs |-> Unbound]
    /\ response = [r \in rs |-> [status_code |-> 0, body |-> <<>>]]
    /\ ending = [r \in rs |-> "open"]
    /\ aclose = [r \in rs |-> 0]

Init == Started(Reqs)

\* an inbound request, one of the given ones, reaches the application
Arrive(r, methods, paths, queries, headerLists) ==
    /\ pc[r] = "idle"
    /\ \E method \in methods, path \in paths, query \in queries, headers \in headerLists :
         requests' = [requests EXCEPT ![r] =
                        [method |-> method, path |-> path, query |-> query,
                         headers |-> headers]]
    /\ pc' = [pc EXCEPT ![r] = "received"]
    /\ UNCHANGED <<config, rp_req, sends, rp_resp, response, ending, aclose>>

Receive(r) == Arrive(r, Methods, Paths, Queries, HeaderLists)

\* the handlers answering through one response object that all requests share
ActSharedResponse(r, outcome) ==
    IF outcome.proxy
    THEN /\ rp_req' = [rp_req EXCEPT ![r] = outcome.rp_req]
         /\ sends' = [sends EXCEPT ![r] = @ + 1]
         /\ pc' = [pc EXCEPT ![r] = "sent"]
         /\ UNCHANGED <<config, requests, rp_resp, response, ending, aclose>>
    ELSE /\ response' = [q \in DOMAIN response |->
                            [response[q] EXCEPT !.status_code = outcome.status_code]]
         /\ pc' = [pc EXCEPT ![r] = "rejected"]
         /\ UNCHANGED <<config, requests, rp_req, sends, rp_resp, ending, aclose>>

\* the upstream call issued before the handler's checks are done
ActSendFirst(r, outcome) ==
    IF outcome.proxy
    THEN /\ rp_req' = [rp_req EXCEPT ![r] = outcome.rp_req]
         /\ sends' = [sends EXCEPT ![r] = @ + 1]
         /\ pc' = [pc EXCEPT ![r] = "sent"]
         /\ UNCHANGED <<config, requests, rp_resp, response, ending, aclose>>
    ELSE /\ response' = [response EXCEPT ![r].status_code = outcome.status_code]
         /\ sends' = [sends EXCEPT ![r] = @ + 1]
         /\ pc' = [pc EXCEPT ![r] = "rejected"]
         /\ UNCHANGED <<config, requests, rp_req, rp_resp, ending, aclose>>

\* what a handler's outcome does: a local answer, or client.send(rp_req)
Act(r, outcome) ==
    IF outcome.proxy
    THEN /\ rp_req' = [rp_req EXCEPT ![r] = outcome.rp_req]
         /\ sends' = [sends EXCEPT ![r] = @ + 1]
         /\ pc' = [pc EXCEPT ![r] = "sent"]
         /\ UNCHANGED <<config, requests, rp_resp, response, ending, aclose>>
    ELSE /\ response' = [response EXCEPT ![r].status_code = outcome.status_code]
         /\ pc' = [pc EXCEPT ![r] = "rejected"]
         /\ UNCHANGED <<config, requests, rp_req, sends, rp_resp, ending, aclose>>

RunHfCatchAll(r) ==
    /\ pc[r] = "received"
    /\ RouteOf(requests[r].path) = "hf_catch_all"
    /\ Act(r, hf_catch_all(requests[r], config))

RunCatchAll(r) ==
    /\ pc[r] = "received"
    /\ RouteOf(requests[r].path) = "catch_all"
    /\ Act(r, catch_all(requests[r], config))

\* client.send returns: the upstream's status and headers have arrived and the
\* StreamingResponse is returned with that status
Answered(r, statuses, bodies) ==
    /\ pc[r] = "sent"
    /\ \E status_code \in statuses, body \in bodies :
         /\ rp_resp' = [rp_resp EXCEPT ![r] = [status_code |-> status_code, body |-> body]]
         /\ response' = [response EXCEPT ![r].status_code = status_code]
    /\ pc' = [pc EXCEPT ![r] = "streaming"]
    /\ UNCHANGED <<config, requests, rp_req, sends, ending, aclose>>

SendReturns(r) == Answered(r, UpstreamStatuses, Bodies)

\* a failed client.send that is issued again
SendRaisesRetry(r) ==
    /\ pc[r] = "sent"
    /\ sends' = [sends EXCEPT ![r] = @ + 1]
    /\ UNCHANGED <<config, pc, requests, rp_req, rp_resp, response, ending, aclose>>

\* client.send raises (connection refused, DNS failure, reset): nothing in
\* __reverse_proxy or the handlers catches it, so it leaves the handler
SendRaises(r) ==
    /\ pc[r] = "sent"
    /\ pc' = [pc EXCEPT ![r] = "raised"]
    /\ UNCHANGED <<config, requests, rp_req, sends, rp_resp, response, ending, aclose>>

\* a stream that starts over at every read
NextChunkFirst(body, delivered) == body[1]

\* the chunk that aiter_raw yields after `delivered` chunks were passed on
NextChunk(body, delivered) == body[Len(delivered) + 1]

\* one chunk of rp_resp.aiter_raw() is passed on to the caller
StreamChunk(r) ==
    /\ pc[r] = "streaming"
    /\ Len(response[r].body) < Len(rp_resp[r].body)
    /\ response' = [response EXCEPT ![r].body =
                       Append(@, NextChunk(rp_resp[r].body, response[r].body))]
    /\ UNCHANGED <<config, pc, requests, rp_req, sends, rp_resp, ending, aclose>>

\* aiter_raw is exhausted: the response is complete and the background task
\* rp_resp.aclose runs
StreamEnd(r) ==
    /\ pc[r] = "streaming"
    /\ Len(response[r].body) = Len(rp_resp[r].body)
    /\ pc' = [pc EXCEPT ![r] = "done"]
    /\ ending' = [ending EXCEPT ![r] = "complete"]
    /\ aclose' = [aclose EXCEPT ![r] = @ + 1]
    /\ UNCHANGED <<config, requests, rp_req, sends, rp_resp, response>>

\* the caller disconnects while the body is streamed: the streaming task is
\* cancelled and the background task rp_resp.aclose runs
CallerDisconnect(r) ==
    /\ pc[r] = "streaming"
    /\ pc' = [pc EXCEPT ![r] = "done"]
    /\ ending' = [ending EXCEPT ![r] = "caller_disconnect"]
    /\ aclose' = [aclose EXCEPT ![r] = @ + 1]
    /\ UNCHANGED <<config, requests, rp_req, sends, rp_resp, response>>

\* aiter_raw raises before the body is exhausted: the exception ends the
\* response where it is and the background task does not run
UpstreamError(r) ==
    /\ pc[r] = "streaming"
    /\ Len(response[r].body) < Len(rp_resp[r].body)
    /\ pc' = [pc EXCEPT ![r] = "done"]
    /\ ending' = [ending EXCEPT ![r] = "upstream_error"]
    /\ UNCHANGED <<config, requests, rp_req, sends, rp_resp, response, aclose>>

Next ==
    \E r \in Reqs :
        \/ Receive(r)
        \/ RunHfCatchAll(r)
        \/ RunCatchAll(r)
        \/ SendReturns(r)
        \/ SendRaises(r)
        \/ StreamChunk(r)
        \/ StreamEnd(r)
        \/ CallerDisconnect(r)
        \/ UpstreamError(r)

Spec == Init /\ [][Next]_vars

(* ------------------------------------------------- concurrent requests *)

\* Two requests in progress at once, each a task of the event loop, drawn
\* from a few inputs of every kind: no header, a malformed one, each
\* provider's placeholder and an unknown token, on a generic and a gated path.
ConcReqs == {"r1", "r2"}

ConcPaths == { <<"/", "c", "h", "a", "t", "/", "c", "o", "m", "p", "l", "e", "t", "i", "o", "n", "s">>,
               <<"/", "h", "f", "/", "m", "o", "d", "e", "l", "s">> }

ConcHeaderLists ==
    { << <<"host", LOCAL_HOST>>, <<"accept", ACCEPT_ANY>> >> }
    \cup { << <<"host", LOCAL_HOST>>, <<"authorization", v>>, <<"accept", ACCEPT_ANY>> >> :
            v \in { Bearer, Bearer \o <<SP>> \o openai, Bearer \o <<SP>> \o hugging_face,
                    Bearer \o <<SP>> \o Bearer } }

ConcBodies == { <<>>, <<"c1", "c2">> }

InitConc == Started(ConcReqs)

ReceiveConc(r) == Arrive(r, {"GET"}, ConcPaths, {<<>>}, ConcHeaderLists)

SendReturnsConc(r) == Answered(r, {200}, ConcBodies)

\* the inbound requests of the concurrent runs
ConcRequests ==
    [method : {"GET"}, path : ConcPaths, query : {<<>>}, headers : ConcHeaderLists]

\* the route a request is matched to and what its handler makes of it
Dispatch(request, cfg) ==
    IF RouteOf(request.path) = "hf_catch_all"
    THEN hf_catch_all(request, cfg) ELSE catch_all(request, cfg)

\* the handlers read the request and the configuration only: what they make
\* of each concurrent request under each configuration, worked out once
Outcomes ==
    {<<request, cfg, Dispatch(request, cfg)>> : request \in ConcRequests, cfg \in Configs}

OutcomeOf(request, cfg) ==
    (CHOOSE o \in Outcomes : o[1] = request /\ o[2] = cfg)[3]

RunHandler(r) ==
    /\ pc[r] = "received"
    /\ Act(r, OutcomeOf(requests[r], config))

\* the steps the event loop, the upstream and the caller take for a request
\* that has arrived
Progress(r) ==
    \/ RunHandler(r)
    \/ SendReturnsConc(r)
    \/ SendRaises(r)
    \/ StreamChunk(r)
    \/ StreamEnd(r)
    \/ CallerDisconnect(r)
    \/ UpstreamError(r)

NextConc == \E r \in ConcReqs : ReceiveConc(r) \/ Progress(r)

\* every step changes pc or response; these variables hold values of one
\* shape throughout, so a step is told from a stuttering step by them
progress == <<config, pc, sends, response, ending, aclose>>

\* the event loop runs every task that can run; an upstream that was sent a
\* request answers or fails, and a stream that is open goes on or ends
FairSpec ==
    /\ InitConc
    /\ [][NextConc]_vars
    /\ \A r \in ConcReqs : WF_progress(Progress(r))

(* -------------------------------------------------------------- claims *)

\* the words of a header value are counted by its spaces, not by split
Spaces(s) == {i \in 1..Len(s) : s[i] = SP}
TwoTokens(s) == Cardinality(Spaces(s)) = 1
TokenOf(s) == SubSeq(s, (CHOOSE i \in Spaces(s) : TRUE) + 1, Len(s))

\* the tokens the generic route resolves, and the ones registered when only
\* the providers with a credential are
GenericTokens == {openai, cohere}
KeyOf(token) ==
    IF token = openai THEN config.openai_api_key
    ELSE IF token = cohere THEN config.cohere_api_key
    ELSE config.hf_api_key

Handled(r) == pc[r] \notin {"idle", "received"}
Generic(r) == RouteOf(requests[r].path) = "catch_all"
Gated(r) == RouteOf(requests[r].path) = "hf_catch_all"
Authorization(r) == HeadersGet(requests[r].headers, "authorization")
HasToken(r) == Authorization(r) # None /\ TwoTokens(Authorization(r))
Token(r) == TokenOf(Authorization(r))
RejectedWith(r, status_code) ==
    /\ pc[r] = "rejected"
    /\ response[r].status_code = status_code
    /\ response[r].body = <<>>
    /\ sends[r] = 0
Dispatched(r) == Handled(r) /\ pc[r] # "rejected"
AuthorizationValues(headers) ==
    {headers[i][2] : i \in HeaderIndexes(headers, "authorization")}
Occurrences(s, p) == {i \in 1..Len(s) : i + Len(p) - 1 <= Len(s) /\ SubSeq(s, i, i + Len(p) - 1) = p}
RemoveFirst(s, p) ==
    IF Occurrences(s, p) = {} THEN s
    ELSE LET i == Min(Occurrences(s, p)) IN SubSeq(s, 1, i - 1) \o Drop(s, i + Len(p) - 1)
IsPrefix(s, t) == Len(s) <= Len(t) /\ SubSeq(t, 1, Len(s)) = s

C2_AbsentCredential400 ==
    \A r \in Reqs :
        (/\ Handled(r)
         /\ HasToken(r)
         /\ \/ Generic(r) /\ Token(r) \in GenericTokens
            \/ Gated(r) /\ Token(r) = hugging_face
         /\ KeyOf(Token(r)) = None)
            => RejectedWith(r, 400)

\* C3: on either route, a header that is present but does not split on single
\* spaces into exactly two tokens ends with status 401 and no upstream call.
C3_Malformed401 ==
    \A r \in Reqs :
        (Handled(r) /\ Authorization(r) # None /\ ~TwoTokens(Authorization(r)))
            => RejectedWith(r, 401)

C3_Witness ==
    \E r \in Reqs :
        /\ RejectedWith(r, 401)
        /\ Gated(r)
        /\ Authorization(r) = Bearer \o <<SP, SP>> \o hugging_face
        /\ config.hf_api_key # None

\* C4: on the generic route, a request without an authorization header ends
\* with status 401, no body and no upstream call, whatever its method and path.
C4_MissingHeader401 ==
    \A r \in Reqs :
        (Handled(r) /\ Generic(r) /\ Authorization(r) = None)
            => RejectedWith(r, 401)

C4_Witness ==
    \E r \in Reqs :
        /\ RejectedWith(r, 401)
        /\ Generic(r)
        /\ Authorization(r) = None
        /\ requests[r].method = "HEAD"

\* C5: on the gated route, a request without an authorization header is sent
\* to the public upstream with the gated prefix stripped (/hf/models becomes
\* /models) and with no authorization header, whatever the configuration.
C5_AnonymousGated ==
    \A r \in Reqs :
        (Handled(r) /\ Gated(r) /\ Authorization(r) = None)
            => /\ pc[r] # "rejected"
               /\ sends[r] = 1
               /\ UrlString([rp_req[r].url EXCEPT !.path = <<>>, !.query = <<>>])
                      = HF_URL \o <<"?">>
               /\ HeaderIndexes(rp_req[r].headers, "authorization") = {}
               /\ Cardinality(Occurrences(requests[r].path, HF_PREFIX)) = 1
                      => rp_req[r].url.path = Drop(requests[r].path, Len(HF_PREFIX))

C5_Witness ==
    \E r \in Reqs :
        /\ sends[r] = 1
        /\ Authorization(r) = None
        /\ requests[r].path = HF_PREFIX \o <<"/", "m", "o", "d", "e", "l", "s">>
        /\ config.hf_api_key # None
        /\ rp_req[r].url.path = <<"/", "m", "o", "d", "e", "l", "s">>

\* C6: on the gated route, a well-formed header whose token is not exactly the
\* gated provider's identifier ends with status 400 and no upstream call, also
\* when the token is another provider's placeholder.
C6_GatedWrongToken400 ==
    \A r \in Reqs :
        (Handled(r) /\ Gated(r) /\ HasToken(r) /\ Token(r) # hugging_face)
            => RejectedWith(r, 400)

C6_Witness ==
    \E r \in Reqs :
        /\ RejectedWith(r, 400)
        /\ Gated(r)
        /\ Authorization(r) = Bearer \o <<SP>> \o openai
        /\ config.openai_api_key # None

\* C7: for the primary provider's base https://api.openai.com/v1/ and inbound
\* path /chat/completions with query x=1, the outbound URL is exactly
\* https://api.openai.com/v1/chat/completions?x=1.
C7_OneSlash ==
    \A r \in Reqs :
        (/\ Dispatched(r)
         /\ Generic(r)
         /\ HasToken(r)
         /\ Token(r) = openai
         /\ requests[r].path = <<"/", "c", "h", "a", "t", "/", "c", "o", "m", "p", "l", "e", "t", "i", "o", "n", "s">>
         /\ requests[r].query = <<"x", "=", "1">>)
            => UrlString(rp_req[r].url) =
                 <<"h", "t", "t", "p", "s", ":", "/", "/", "a", "p", "i", ".", "o", "p", "e", "n", "a", "i", ".", "c", "o", "m", "/", "v", "1", "/", "c", "h", "a", "t", "/", "c", "o", "m", "p", "l", "e", "t", "i", "o", "n", "s", "?", "x", "=", "1">>

\* C8: a request dispatched on a route resolved from a placeholder token
\* carries "Bearer <secretCredential>" of that route as its only authorization
\* value, and the placeholder token is in no authorization value sent.
C8_CredentialSubstituted ==
    \A r \in Reqs :
        (Dispatched(r) /\ HasToken(r))
            => /\ KeyOf(Token(r)) # None
               /\ AuthorizationValues(rp_req[r].headers) = {Bearer \o <<SP>> \o KeyOf(Token(r))}
               /\ \A v \in AuthorizationValues(rp_req[r].headers) :
                      Occurrences(v, Token(r)) = {}

\* C9: with a strip prefix, only the first occurrence of the prefix is removed
\* from the path (/hf/a/hf/b becomes /a/hf/b); without one, the path is the
\* inbound path.
C9_FirstOccurrenceOnly ==
    \A r \in Reqs :
        Dispatched(r)
            => rp_req[r].url.path =
                 IF Gated(r)
                 THEN urlparse(HF_URL).path \o RemoveFirst(requests[r].path, HF_PREFIX)
                 ELSE urlparse(IF Token(r) = openai THEN OPENAI_URL ELSE COHERE_URL).path
                          \o requests[r].path

\* C10: what the caller has received is always a prefix of the upstream's
\* chunks; after the body is drained it is all of them; chunks are only ever
\* added at the end, and none after an upstream failure.
C10_Streaming ==
    /\ [](\A r \in Reqs :
            pc[r] \in {"streaming", "done"}
                => /\ IsPrefix(response[r].body, rp_resp[r].body)
                   /\ ending[r] = "complete" => response[r].body = rp_resp[r].body)
    /\ [][\A r \in Reqs :
            /\ IsPrefix(response[r].body, response'[r].body)
            /\ ending[r] = "upstream_error" => response'[r] = response[r]]_vars

C10_Witness ==
    \E r \in Reqs :
        /\ ending[r] = "complete"
        /\ response[r].body = <<"c1", "c2">>

\* C11: every request whose upstream response was opened and that has reached
\* DONE has had its upstream response released, exactly once, whichever way
\* the stream ended (drained, caller disconnect, upstream error).
C11_ReleasedOnce ==
    \A r \in Reqs : pc[r] = "done" => aclose[r] = 1

\* C12: a transport failure of the upstream call is answered by the handler
\* itself with a failure status, after exactly one call.
C12_TransportFailureAnswered ==
    \A r \in Reqs :
        pc[r] = "raised" => response[r].status_code >= 400 /\ sends[r] = 1

API_OPENAI_COM == <<"a", "p", "i", ".", "o", "p", "e", "n", "a", "i", ".", "c", "o", "m">>
API_COHERE_AI == <<"a", "p", "i", ".", "c", "o", "h", "e", "r", "e", ".", "a", "i">>
HUGGINGFACE_CO == <<"h", "u", "g", "g", "i", "n", "g", "f", "a", "c", "e", ".", "c", "o">>
HTTPS == <<"h", "t", "t", "p", "s">>
V1 == <<"/", "v", "1", "/">>
CHAT_COMPLETIONS == <<"/", "c", "h", "a", "t", "/", "c", "o", "m", "p", "l", "e", "t", "i", "o", "n", "s">>

\* the upstream a dispatched request was routed to, written out
ToOpenai(r) == Generic(r) /\ Token(r) = openai
ToCohere(r) == Generic(r) /\ Token(r) = cohere
AuthorityOf(r) ==
    IF Gated(r) THEN HUGGINGFACE_CO
    ELSE IF Token(r) = openai THEN API_OPENAI_COM ELSE API_COHERE_AI
BasePathOf(r) == IF ToOpenai(r) THEN V1 ELSE <<>>
\* the path after the strip step of __reverse_proxy
EffectivePath(r) ==
    IF Gated(r) THEN replace(requests[r].path, HF_PREFIX) ELSE requests[r].path
\* the credential handed to __reverse_proxy
CredentialOf(r) == IF Authorization(r) = None THEN None ELSE KeyOf(Token(r))

IsOther(entry) == entry[1] \notin {"host", "authorization"}
IsAuthorization(entry) == entry[1] = "authorization"
Carries(headers, key) ==
    \E i \in 1..Len(headers) : Occurrences(headers[i][2], key) # {}

\* C13: the outbound URL has the scheme and authority of the upstream base,
\* its path is the base path followed by the effective path and nothing else,
\* and its query is the inbound query.
C13_TargetUrl ==
    \A r \in Reqs :
        Dispatched(r)
            => /\ rp_req[r].url.scheme = HTTPS
               /\ rp_req[r].url.netloc = AuthorityOf(r)
               /\ rp_req[r].url.path = BasePathOf(r) \o EffectivePath(r)
               /\ rp_req[r].url.query = requests[r].query

C13_Witness ==
    \E r \in Reqs :
        /\ Dispatched(r)
        /\ ToOpenai(r)
        /\ requests[r].query = <<"x", "=", "1">>
        /\ rp_req[r].url.path = V1 \o CHAT_COMPLETIONS
        /\ rp_req[r].url.query = <<"x", "=", "1">>

\* C15: a request causes at most one upstream call, whatever became of the
\* call, and a rejected request causes none.
C15_AtMostOneCall ==
    \A r \in Reqs :
        /\ sends[r] <= 1
        /\ pc[r] = "rejected" => sends[r] = 0

C15_Witness ==
    \E r \in Reqs : pc[r] = "raised" /\ sends[r] = 1

\* C16: the outbound request has the inbound method, one host entry naming the
\* upstream authority, and every inbound header other than host and
\* authorization in its place with its value; without a credential the
\* authorization entries are the inbound ones.
C16_OnlyHostAndAuthorization ==
    \A r \in Reqs :
        Dispatched(r)
            => /\ rp_req[r].method = requests[r].method
               /\ Cardinality(HeaderIndexes(rp_req[r].headers, "host")) = 1
               /\ HeadersGet(rp_req[r].headers, "host") = AuthorityOf(r)
               /\ SelectSeq(rp_req[r].headers, IsOther) = SelectSeq(requests[r].headers, IsOther)
               /\ CredentialOf(r) = None
                      => SelectSeq(rp_req[r].headers, IsAuthorization)
                             = SelectSeq(requests[r].headers, IsAuthorization)

C16_Witness ==
    \E r \in Reqs :
        /\ Dispatched(r)
        /\ ToCohere(r)
        /\ config.cohere_api_key # None
        /\ SelectSeq(rp_req[r].headers, IsOther)
               = << <<"accept", ACCEPT_TEXT>>, <<"accept", ACCEPT_ANY>> >>

\* C18: an outbound request that carries a provider's credential goes to that
\* provider's authority, and a locally generated answer carries nothing.
C18_CredentialBoundToUpstream ==
    \A r \in Reqs :
        /\ Dispatched(r)
               => /\ Carries(rp_req[r].headers, OPENAI_KEY) => rp_req[r].url.netloc = API_OPENAI_COM
                  /\ Carries(rp_req[r].headers, COHERE_KEY) => rp_req[r].url.netloc = API_COHERE_AI
                  /\ Carries(rp_req[r].headers, HF_KEY) => rp_req[r].url.netloc = HUGGINGFACE_CO
        /\ pc[r] = "rejected" => response[r].body = <<>>

C18_Witness ==
    \E r \in Reqs :
        /\ Dispatched(r)
        /\ Carries(rp_req[r].headers, COHERE_KEY)
        /\ rp_req[r].url.netloc = API_COHERE_AI

\* C19: on the generic route the gated provider's identifier is no token: it
\* ends with status 400 and no upstream call, also with the gated credential
\* configured.
C19_GatedTokenOnGenericRoute ==
    \A r \in Reqs :
        (Handled(r) /\ Generic(r) /\ Authorization(r) = Bearer \o <<SP>> \o hugging_face)
            => RejectedWith(r, 400)

C19_Witness ==
    \E r \in Reqs :
        /\ RejectedWith(r, 400)
        /\ Generic(r)
        /\ Authorization(r) = Bearer \o <<SP>> \o hugging_face
        /\ config.hf_api_key # None
        /\ requests[r].path = HF_PREFIX

\* the order of a request's states; "rejected" and "done" have no successor
Edges ==
    { <<"idle", "received">>, <<"received", "rejected">>, <<"received", "sent">>,
      <<"sent", "streaming">>, <<"sent", "raised">>, <<"streaming", "done">> }

\* C14: a request moves along RECEIVED, (AUTH_CHECKED, ROUTED inside the
\* handler), DISPATCHED, STREAMING, DONE; on the generic route a call is issued
\* only for a well-formed header with a resolved token; REJECTED is entered
\* from the handler only and never after a call; DONE and REJECTED are final;
\* and a received request whose upstream call does not fail reaches one of them.
C14_StateOrder ==
    /\ [](\A r \in ConcReqs :
            /\ (sends[r] > 0 /\ Generic(r)) => (HasToken(r) /\ Token(r) \in GenericTokens)
            /\ pc[r] = "rejected" => sends[r] = 0
            /\ pc[r] \in {"streaming", "done"} => sends[r] = 1)
    /\ [][\A r \in ConcReqs : pc'[r] # pc[r] => <<pc[r], pc'[r]>> \in Edges]_progress
    /\ \A r \in ConcReqs :
            (pc[r] = "received") ~> (pc[r] \in {"done", "rejected", "raised"})

C14_Witness ==
    \E r \in ConcReqs :
        /\ pc[r] = "done"
        /\ Generic(r)
        /\ ending[r] = "complete"
        /\ response[r].body = <<"c1", "c2">>

\* what a handled request came to: its rejection status, or its outbound request
SameOutcome(r1, r2) ==
    /\ (pc[r1] = "rejected") = (pc[r2] = "rejected")
    /\ IF pc[r1] = "rejected"
       THEN response[r1].status_code = response[r2].status_code
       ELSE rp_req[r1] = rp_req[r2]

\* the part of the state that shows what became of request r
Own(r) == <<pc[r], sends[r], response[r], ending[r], aclose[r]>>

====
